---- MODULE Spec2Model ----
(***************************************************************************)
(* Rate-limiting core of rate-limit-project: the fixed window counter and  *)
(* the sliding window log strategies over the in-memory key/value storage, *)
(* the MemoryStorage and RedisStorage backends, and the middleware.        *)
(*                                                                         *)
(* Storage keys are strings, built by concatenation exactly as the         *)
(* template literals of the source build them.                             *)
(* A stored value is a tagged record: [num |-> n] for                      *)
(* a JavaScript number, [arr |-> s] for an array of numbers, and Null for  *)
(* the null that MemoryStorage.get returns for an absent key.              *)
(***************************************************************************)
EXTENDS Integers, Sequences, FiniteSets, TLC

\* ------------------------------------------------------------------ bounds
\* maxRequests is drawn from 1..MaxReq
MaxReq == 2
\* the windowMs every check is called with (milliseconds)
WindowMs == 2
\* Date.now() ranges over 0..MaxTime
MaxTime == 6
\* number of isRateLimited calls of a sequential run of one limiter
MaxOps == 6
\* number of isRateLimited calls of a run of both limiters on one storage
SharedMaxOps == 4
\* number of isRateLimited calls, and the last clock value, of a run over several pairs
IsoMaxOps == 3
IsoMaxTime == 2
\* concurrent runs: the number of tasks and of isRateLimited calls
NProc == 3
ConcMaxOps == 4

VARIABLES
  store,        \* the Map of MemoryStorage, or the keys of the Redis server: key -> value
  now,          \* Date.now()
  maxRequests,  \* the maxRequests of the client's rate-limit configuration
  pairs,        \* the (clientId, endpoint) pairs that issue requests
  limiters,     \* the limiter instances the run calls, all on the one storage
  hist,         \* completed isRateLimited calls or storage operations, in order of completion
  ret,          \* the last call made and what it returned (sequential runs)
  pc,           \* per task: the await its call is suspended at
  loc,          \* per task: the local variables of its call
  backend,      \* the storage backend of the run: "memory" or "redis"
  conn          \* RedisStorage: the client's connection, isConnected, lines logged

vars == <<store, now, maxRequests, pairs, limiters, hist, ret, pc, loc, backend, conn>>

\* ------------------------------------------------------------------ values
Null == [null |-> TRUE]

Num(n) == [num |-> n]

Arr(s) == [arr |-> s]

\* typeof v === 'number'
IsNumber(v) == DOMAIN v = {"num"}

\* Array.isArray(v)
IsArray(v) == DOMAIN v = {"arr"}

\* !v of JavaScript: null and 0 are falsy, every array is truthy
Falsy(v) == v = Null \/ v = Num(0)

\* ------------------------------------------------------------------ keys
\* `fixed-window:${clientId}:${endpoint}:counter`
getCounterKey(clientId, endpoint) ==
  "fixed-window:" \o clientId \o ":" \o endpoint \o ":counter"

\* `fixed-window:${clientId}:${endpoint}:window`
getWindowKey(clientId, endpoint) ==
  "fixed-window:" \o clientId \o ":" \o endpoint \o ":window"

\* mutant: the key template copied from the fixed window counter
getKey_CopiedFromFixed(clientId, endpoint) ==
  "fixed-window:" \o clientId \o ":" \o endpoint \o ":counter"

\* `sliding-window-log:${clientId}:${endpoint}`
getKey(clientId, endpoint) ==
  "sliding-window-log:" \o clientId \o ":" \o endpoint

\* ------------------------------------------------------------------ MemoryStorage
\* mutant: the earlier get, 0 for an absent key
MemGet_ZeroForAbsent(s, key) == IF key \in DOMAIN s THEN s[key] ELSE Num(0)

MemGet(s, key) == IF key \in DOMAIN s THEN s[key] ELSE Null

MemSet(s, key, value) ==
  [k \in DOMAIN s \cup {key} |-> IF k = key THEN value ELSE s[k]]

\* mutant: the stored count is overwritten, not read
MemIncrement_Overwrites(s, key) == MemSet(s, key, Num(1))

\* mutant: one call adds two
MemIncrement_ByTwo(s, key) ==
  IF key \in DOMAIN s /\ IsNumber(s[key])
    THEN MemSet(s, key, Num(s[key].num + 2))
    ELSE MemSet(s, key, Num(2))

MemIncrement(s, key) ==
  IF key \in DOMAIN s /\ IsNumber(s[key])
    THEN MemSet(s, key, Num(s[key].num + 1))
    ELSE MemSet(s, key, Num(1))

EmptyStore == [k \in {} |-> Null]

\* ------------------------------------------------------------------ helpers
\* mutant: the window is one millisecond short
Filter_ShortWindow(timestamps, windowStart) ==
  SelectSeq(timestamps, LAMBDA timestamp : timestamp > windowStart + 1)

\* mutant: no timestamp ever leaves the log
Filter_KeepsExpired(timestamps, windowStart) == timestamps

\* mutant: >= in place of >, a timestamp of age windowMs is kept
Filter_KeepsBoundary(timestamps, windowStart) ==
  SelectSeq(timestamps, LAMBDA timestamp : timestamp >= windowStart)

RECURSIVE Filter(_, _)
\* timestamps.filter(timestamp => timestamp > windowStart): order is kept
Filter(timestamps, windowStart) ==
  IF timestamps = <<>> THEN <<>>
  ELSE IF Head(timestamps) > windowStart
    THEN <<Head(timestamps)>> \o Filter(Tail(timestamps), windowStart)
    ELSE Filter(Tail(timestamps), windowStart)

\* mutant: the first timestamp is taken for the oldest
MathMin_First(timestamps) == Head(timestamps)

\* Math.min(...validTimestamps), for a non-empty array
MathMin(timestamps) ==
  CHOOSE m \in {timestamps[i] : i \in DOMAIN timestamps} :
    \A i \in DOMAIN timestamps : m <= timestamps[i]

\* Math.max(0, n)
MathMax0(n) == IF n > 0 THEN n ELSE 0

\* the value read under a counter key, used as a number: a counter key holds a
\* number once it was set; null (an absent key) compares and subtracts as 0
AsNumber(v) == IF IsNumber(v) THEN v.num ELSE 0

\* Math.floor(now / windowMs), for now >= 0
WindowOf(t, windowMs) == t \div windowMs

\* ------------------------------------------------------------------ FixedWindowRateLimiter
\* mutant: the stored window id is only tested for absence, never compared
NewWindow_NoCompare(storedWindow, currentWindow) == Falsy(storedWindow)

\* mutant: the window only changes forwards, < in place of !==
NewWindow_OnlyLater(storedWindow, currentWindow) ==
  Falsy(storedWindow) \/ AsNumber(storedWindow) < currentWindow

\* !storedWindow || storedWindow !== currentWindow
NewWindow(storedWindow, currentWindow) ==
  Falsy(storedWindow) \/ storedWindow # Num(currentWindow)

\* mutant: > in place of >=, the counter may pass the limit
OverLimit_Strict(currentCount, maxReq) == AsNumber(currentCount) > maxReq

\* mutant: the limit is reached one request early
OverLimit_OffByOne(currentCount, maxReq) == AsNumber(currentCount) + 1 >= maxReq

\* currentCount >= maxRequests
OverLimit(currentCount, maxReq) == AsNumber(currentCount) >= maxReq

\* mutant: the counter is incremented before it is compared
FixedIsRateLimited_CountsFirst(s, clientId, endpoint, maxReq, windowMs, t) ==
  LET counterKey == getCounterKey(clientId, endpoint)
      windowKey == getWindowKey(clientId, endpoint)
      currentWindow == WindowOf(t, windowMs)
      storedWindow == MemGet(s, windowKey)
      s1 == IF NewWindow(storedWindow, currentWindow)
              THEN MemSet(MemSet(s, counterKey, Num(0)), windowKey, Num(currentWindow))
              ELSE s
      currentCount == MemGet(s1, counterKey)
  IN [store |-> MemIncrement(s1, counterKey), limited |-> OverLimit(currentCount, maxReq)]

\* the whole of isRateLimited, run with no other call in between: the storage
\* after the call and the value returned
FixedIsRateLimited(s, clientId, endpoint, maxReq, windowMs, t) ==
  LET counterKey == getCounterKey(clientId, endpoint)
      windowKey == getWindowKey(clientId, endpoint)
      currentWindow == WindowOf(t, windowMs)
      storedWindow == MemGet(s, windowKey)
      s1 == IF NewWindow(storedWindow, currentWindow)
              THEN MemSet(MemSet(s, counterKey, Num(0)), windowKey, Num(currentWindow))
              ELSE s
      currentCount == MemGet(s1, counterKey)
  IN IF OverLimit(currentCount, maxReq)
       THEN [store |-> s1, limited |-> TRUE]
       ELSE [store |-> MemIncrement(s1, counterKey), limited |-> FALSE]

FixedGetRemainingRequests(s, clientId, endpoint, maxReq, windowMs, t) ==
  LET counterKey == getCounterKey(clientId, endpoint)
      windowKey == getWindowKey(clientId, endpoint)
      currentWindow == WindowOf(t, windowMs)
      storedWindow == MemGet(s, windowKey)
  IN IF NewWindow(storedWindow, currentWindow)
       THEN maxReq
       ELSE MathMax0(maxReq - AsNumber(MemGet(s, counterKey)))

FixedGetResetTime(s, clientId, endpoint, windowMs, t) ==
  LET windowKey == getWindowKey(clientId, endpoint)
      currentWindow == WindowOf(t, windowMs)
      storedWindow == MemGet(s, windowKey)
  IN IF NewWindow(storedWindow, currentWindow)
       THEN 0
       ELSE (currentWindow + 1) * windowMs - t

\* ------------------------------------------------------------------ SlidingWindowRateLimiter
\* mutant: the oldest stored timestamp is not read
StoredLog_DropsOldest(storedData) ==
  IF IsArray(storedData) /\ storedData.arr # <<>> THEN Tail(storedData.arr) ELSE <<>>

\* let timestamps = []; if (Array.isArray(storedData)) timestamps = storedData
StoredLog(storedData) == IF IsArray(storedData) THEN storedData.arr ELSE <<>>

\* mutant: > in place of >=, one request too many fits the log
LogFull_Strict(timestamps, maxReq) == Len(timestamps) > maxReq

\* mutant: the length of the log is never tested
LogFull_NeverFull(timestamps, maxReq) == FALSE

\* timestamps.length >= maxRequests
LogFull(timestamps, maxReq) == Len(timestamps) >= maxReq

\* mutant: now is pushed before the length of the log is tested
SlidingIsRateLimited_LogsRejected(s, clientId, endpoint, maxReq, windowMs, t) ==
  LET key == getKey(clientId, endpoint)
      windowStart == t - windowMs
      timestamps == Filter(StoredLog(MemGet(s, key)), windowStart)
  IN [store |-> MemSet(s, key, Arr(Append(timestamps, t))),
      limited |-> LogFull(timestamps, maxReq)]

SlidingIsRateLimited(s, clientId, endpoint, maxReq, windowMs, t) ==
  LET key == getKey(clientId, endpoint)
      windowStart == t - windowMs
      timestamps == Filter(StoredLog(MemGet(s, key)), windowStart)
  IN IF LogFull(timestamps, maxReq)
       THEN [store |-> MemSet(s, key, Arr(timestamps)), limited |-> TRUE]
       ELSE [store |-> MemSet(s, key, Arr(Append(timestamps, t))), limited |-> FALSE]

SlidingGetRemainingRequests(s, clientId, endpoint, maxReq, windowMs, t) ==
  LET key == getKey(clientId, endpoint)
      windowStart == t - windowMs
      timestamps == Filter(StoredLog(MemGet(s, key)), windowStart)
  IN MathMax0(maxReq - Len(timestamps))

SlidingGetResetTime(s, clientId, endpoint, windowMs, t) ==
  LET key == getKey(clientId, endpoint)
      windowStart == t - windowMs
      validTimestamps == Filter(StoredLog(MemGet(s, key)), windowStart)
  IN IF validTimestamps # <<>>
       THEN MathMin(validTimestamps) + windowMs - t
       ELSE 0

\* ------------------------------------------------------------------ the two limiters of the middleware
Strategies == {"fixed", "sliding"}

IsRateLimited(alg, s, p, maxReq, windowMs, t) ==
  IF alg = "fixed"
    THEN FixedIsRateLimited(s, p.clientId, p.endpoint, maxReq, windowMs, t)
    ELSE SlidingIsRateLimited(s, p.clientId, p.endpoint, maxReq, windowMs, t)

GetRemainingRequests(alg, s, p, maxReq, windowMs, t) ==
  IF alg = "fixed"
    THEN FixedGetRemainingRequests(s, p.clientId, p.endpoint, maxReq, windowMs, t)
    ELSE SlidingGetRemainingRequests(s, p.clientId, p.endpoint, maxReq, windowMs, t)

GetResetTime(alg, s, p, windowMs, t) ==
  IF alg = "fixed"
    THEN FixedGetResetTime(s, p.clientId, p.endpoint, windowMs, t)
    ELSE SlidingGetResetTime(s, p.clientId, p.endpoint, windowMs, t)

\* ------------------------------------------------------------------ sequential runs
\* the clientId and endpoint of the tests
TestPair == [clientId |-> "client-1", endpoint |-> "foo"]

\* identifiers that contain the separator: "a:b" with "c", and "a" with "b:c"
ColonPairA == [clientId |-> "a:b", endpoint |-> "c"]

ColonPairB == [clientId |-> "a", endpoint |-> "b:c"]

NoRet == [op |-> "none"]

\* the tasks that run isRateLimited concurrently
Procs == 1..NProc

\* the locals of a task that is in no call
IdleLoc == [t |-> 0, timestamps |-> <<>>, limited |-> FALSE]

\* the limiters of the middleware run on MemoryStorage: no connection is made
NoConn == [link |-> "none", isConnected |-> FALSE, logged |-> 0]

InitWith(ls, ps, ts) ==
  /\ store = EmptyStore
  /\ now \in ts
  /\ maxRequests \in 1..MaxReq
  /\ pairs = ps
  /\ limiters \in ls
  /\ hist = <<>>
  /\ ret = NoRet
  /\ pc = [self \in Procs |-> "idle"]
  /\ loc = [self \in Procs |-> IdleLoc]
  /\ backend = "memory"
  /\ conn = NoConn

\* one isRateLimited call, run to completion
Check(alg, p) ==
  /\ Len(hist) < MaxOps
  /\ LET r == IsRateLimited(alg, store, p, maxRequests, WindowMs, now)
     IN /\ store' = r.store
        /\ hist' = Append(hist, [alg |-> alg, pair |-> p, t |-> now, limited |-> r.limited])
        /\ ret' = [op |-> "isRateLimited", alg |-> alg, pair |-> p, limited |-> r.limited]
  /\ UNCHANGED <<now, maxRequests, pairs, limiters, pc, loc, backend, conn>>

\* mutant: getRemainingRequests goes through the admission check
Remaining_CountsAsRequest(alg, p) ==
  /\ ret' = [op |-> "getRemainingRequests", alg |-> alg, pair |-> p,
             value |-> GetRemainingRequests(alg, store, p, maxRequests, WindowMs, now)]
  /\ store' = IsRateLimited(alg, store, p, maxRequests, WindowMs, now).store
  /\ UNCHANGED <<now, maxRequests, pairs, limiters, hist, pc, loc, backend, conn>>

\* one getRemainingRequests call
Remaining(alg, p) ==
  /\ ret' = [op |-> "getRemainingRequests", alg |-> alg, pair |-> p,
             value |-> GetRemainingRequests(alg, store, p, maxRequests, WindowMs, now)]
  /\ UNCHANGED <<store, now, maxRequests, pairs, limiters, hist, pc, loc, backend, conn>>

\* one getResetTime call
ResetTime(alg, p) ==
  /\ ret' = [op |-> "getResetTime", alg |-> alg, pair |-> p,
             value |-> GetResetTime(alg, store, p, WindowMs, now)]
  /\ UNCHANGED <<store, now, maxRequests, pairs, limiters, hist, pc, loc, backend, conn>>

\* the clock advances by one millisecond
Tick ==
  /\ now < MaxTime
  /\ now' = now + 1
  /\ ret' = NoRet
  /\ UNCHANGED <<store, maxRequests, pairs, limiters, hist, pc, loc, backend, conn>>

\* a run of one limiter for one pair, as in the limiters' own test suites
Init == InitWith({{"fixed"}, {"sliding"}}, {TestPair}, {0})

Next ==
  \/ \E alg \in limiters, p \in pairs : Check(alg, p)
  \/ \E alg \in limiters, p \in pairs : Remaining(alg, p)
  \/ \E alg \in limiters, p \in pairs : ResetTime(alg, p)
  \/ Tick

Spec == Init /\ [][Next]_vars

\* a run of both limiters of the middleware on its one MemoryStorage
SharedInit == InitWith({Strategies}, {TestPair}, {0})

SharedCheck(alg, p) == Len(hist) < SharedMaxOps /\ Check(alg, p)

SharedNext ==
  \/ \E alg \in limiters, p \in pairs : SharedCheck(alg, p)
  \/ Tick

SharedSpec == SharedInit /\ [][SharedNext]_vars

\* a run of both limiters for several pairs, some with ':' in their identifiers
IsoInit == InitWith({Strategies}, {TestPair, ColonPairA, ColonPairB}, {0})

IsoCheck(alg, p) == Len(hist) < IsoMaxOps /\ Check(alg, p)

IsoTick == now < IsoMaxTime /\ Tick

IsoNext ==
  \/ \E alg \in limiters, p \in pairs : IsoCheck(alg, p)
  \/ IsoTick

IsoSpec == IsoInit /\ [][IsoNext]_vars

\* ------------------------------------------------------------------ concurrent runs
\* Each task runs isRateLimited calls one after the other; a call is suspended
\* at every await, and each storage call takes effect in one step.

\* concurrent requests go to one route of one client: one limiter, one pair
Route == [alg |-> CHOOSE alg \in limiters : TRUE, pair |-> CHOOSE p \in pairs : TRUE]

\* the calls in flight
InFlight == {self \in Procs : pc[self] # "idle"}

\* the call returns: its result joins hist and the task is idle again
Return(self, limited) ==
  /\ hist' = Append(hist, [alg |-> Route.alg, pair |-> Route.pair,
                           t |-> loc[self].t, limited |-> limited])
  /\ pc' = [pc EXCEPT ![self] = "idle"]
  /\ loc' = [loc EXCEPT ![self] = IdleLoc]

\* isRateLimited is called: const now = Date.now().  The tasks are
\* interchangeable, so a new call goes to the first idle one.
Start(self) ==
  /\ pc[self] = "idle"
  /\ \A other \in Procs : other < self => pc[other] # "idle"
  /\ Len(hist) + Cardinality(InFlight) < ConcMaxOps
  /\ pc' = [pc EXCEPT ![self] = IF Route.alg = "fixed" THEN "fGetWindow" ELSE "sGet"]
  /\ loc' = [loc EXCEPT ![self] = [IdleLoc EXCEPT !.t = now]]
  /\ UNCHANGED <<store, now, maxRequests, pairs, limiters, hist, ret, backend, conn>>

\* const storedWindow = await this.storage.get(windowKey), and the test on it
FGetWindow(self) ==
  /\ pc[self] = "fGetWindow"
  /\ LET p == Route.pair
         storedWindow == MemGet(store, getWindowKey(p.clientId, p.endpoint))
     IN pc' = [pc EXCEPT ![self] =
                 IF NewWindow(storedWindow, WindowOf(loc[self].t, WindowMs))
                   THEN "fSetCounter" ELSE "fGetCount"]
  /\ UNCHANGED <<store, now, maxRequests, pairs, limiters, hist, ret, loc, backend, conn>>

\* await this.storage.set(counterKey, 0)
FSetCounter(self) ==
  /\ pc[self] = "fSetCounter"
  /\ LET p == Route.pair
     IN store' = MemSet(store, getCounterKey(p.clientId, p.endpoint), Num(0))
  /\ pc' = [pc EXCEPT ![self] = "fSetWindow"]
  /\ UNCHANGED <<now, maxRequests, pairs, limiters, hist, ret, loc, backend, conn>>

\* await this.storage.set(windowKey, currentWindow)
FSetWindow(self) ==
  /\ pc[self] = "fSetWindow"
  /\ LET p == Route.pair
     IN store' = MemSet(store, getWindowKey(p.clientId, p.endpoint),
                        Num(WindowOf(loc[self].t, WindowMs)))
  /\ pc' = [pc EXCEPT ![self] = "fGetCount"]
  /\ UNCHANGED <<now, maxRequests, pairs, limiters, hist, ret, loc, backend, conn>>

\* const currentCount = await this.storage.get(counterKey); over the limit: return true
FGetCount(self) ==
  /\ pc[self] = "fGetCount"
  /\ LET p == Route.pair
         currentCount == MemGet(store, getCounterKey(p.clientId, p.endpoint))
     IN IF OverLimit(currentCount, maxRequests)
          THEN Return(self, TRUE)
          ELSE /\ pc' = [pc EXCEPT ![self] = "fIncrement"]
               /\ UNCHANGED <<hist, loc>>
  /\ UNCHANGED <<store, now, maxRequests, pairs, limiters, ret, backend, conn>>

\* await this.storage.increment(counterKey); return false
FIncrement(self) ==
  /\ pc[self] = "fIncrement"
  /\ LET p == Route.pair
     IN store' = MemIncrement(store, getCounterKey(p.clientId, p.endpoint))
  /\ Return(self, FALSE)
  /\ UNCHANGED <<now, maxRequests, pairs, limiters, ret, backend, conn>>

\* const storedData = await this.storage.get(key); filter, test, push
SGet(self) ==
  /\ pc[self] = "sGet"
  /\ LET p == Route.pair
         t == loc[self].t
         timestamps == Filter(StoredLog(MemGet(store, getKey(p.clientId, p.endpoint))),
                              t - WindowMs)
         full == LogFull(timestamps, maxRequests)
     IN loc' = [loc EXCEPT ![self].timestamps = IF full THEN timestamps
                                                       ELSE Append(timestamps, t),
                           ![self].limited = full]
  /\ pc' = [pc EXCEPT ![self] = "sSet"]
  /\ UNCHANGED <<store, now, maxRequests, pairs, limiters, hist, ret, backend, conn>>

\* await this.storage.set(key, timestamps); return
SSet(self) ==
  /\ pc[self] = "sSet"
  /\ LET p == Route.pair
     IN store' = MemSet(store, getKey(p.clientId, p.endpoint), Arr(loc[self].timestamps))
  /\ Return(self, loc[self].limited)
  /\ UNCHANGED <<now, maxRequests, pairs, limiters, ret, backend, conn>>

\* the clock crosses the boundary to the next window
ConcTick == (now + 1) % WindowMs = 0 /\ Tick

\* concurrent requests to one route: one limiter, one pair, the first request in
\* the last millisecond of window 0 or of window 1
ConcInit == InitWith({{"fixed"}, {"sliding"}}, {TestPair}, {WindowMs - 1, 2 * WindowMs - 1})

ConcNext ==
  \/ \E self \in Procs : Start(self)
  \/ \E self \in Procs : FGetWindow(self)
  \/ \E self \in Procs : FSetCounter(self)
  \/ \E self \in Procs : FSetWindow(self)
  \/ \E self \in Procs : FGetCount(self)
  \/ \E self \in Procs : FIncrement(self)
  \/ \E self \in Procs : SGet(self)
  \/ \E self \in Procs : SSet(self)
  \/ ConcTick

ConcSpec == ConcInit /\ [][ConcNext]_vars

\* ------------------------------------------------------------------ histories
\* the completed isRateLimited calls of limiter alg for pair p, in order
H(alg, p) == SelectSeq(hist, LAMBDA e : e.alg = alg /\ e.pair = p)

\* the number of admitted calls among the first k of h
Admitted(h, k) == Cardinality({i \in 1..k : ~h[i].limited})

\* the first k calls of h, with time t, fall in one window: for the fixed
\* window the same floor(t / windowMs), for the sliding window less than
\* windowMs after the first call
InOneWindow(alg, h, k, t) ==
  IF alg = "fixed"
    THEN /\ \A i \in 1..k : WindowOf(h[i].t, WindowMs) = WindowOf(h[1].t, WindowMs)
         /\ WindowOf(t, WindowMs) = WindowOf(h[1].t, WindowMs)
    ELSE t - h[1].t < WindowMs

\* the results of the calls of h
Decisions(h) == [i \in 1..Len(h) |-> h[i].limited]

RECURSIVE Replay(_, _, _)
\* the calls of h run alone, in order, from storage s: the storage they leave
\* and the results they return
Replay(s, h, maxReq) ==
  IF h = <<>> THEN [store |-> s, limited |-> <<>>]
  ELSE LET e == Head(h)
           r == IsRateLimited(e.alg, s, e.pair, maxReq, WindowMs, e.t)
           rest == Replay(r.store, Tail(h), maxReq)
       IN [store |-> rest.store, limited |-> <<r.limited>> \o rest.limited]

\* the storage keys limiter alg uses for pair p
KeysOf(alg, p) ==
  IF alg = "fixed"
    THEN {getCounterKey(p.clientId, p.endpoint), getWindowKey(p.clientId, p.endpoint)}
    ELSE {getKey(p.clientId, p.endpoint)}

\* ------------------------------------------------------------------ claims
\* C1: on a fresh key, each of the first k <= maxRequests checks of one window
\* is admitted, for both limiters.
C1_AdmitsUpToMax ==
  \A alg \in limiters, p \in pairs :
    LET h == H(alg, p)
    IN \A k \in 1..Len(h) :
         (k <= maxRequests /\ InOneWindow(alg, h, k, h[k].t)) => ~h[k].limited

C1_Witness ==
  /\ maxRequests = MaxReq
  /\ WindowOf(now, WindowMs) >= 1
  /\ \E alg \in limiters, p \in pairs :
       LET h == H(alg, p)
       IN /\ Len(h) = maxRequests
          /\ InOneWindow(alg, h, Len(h), now)
          /\ \A k \in 1..Len(h) : ~h[k].limited

\* C2: on a fresh key, the (maxRequests+1)-th check of one window is rejected,
\* for both limiters and every window id >= 0.
C2_RejectsNextInWindow ==
  \A alg \in limiters, p \in pairs :
    LET h == H(alg, p)
    IN \A k \in 1..Len(h) :
         (k = maxRequests + 1 /\ InOneWindow(alg, h, k, h[k].t)) => h[k].limited

\* C3: under any interleaving of concurrent sliding-window checks on one key,
\* for every time t at most maxRequests admitted checks have their request
\* time in (t - windowMs, t].
C3_SlidingNeverExceeds ==
  \A p \in pairs :
    LET h == H("sliding", p)
    IN \A t \in 0..MaxTime :
         Cardinality({i \in 1..Len(h) :
                        ~h[i].limited /\ h[i].t > t - WindowMs /\ h[i].t <= t})
           <= maxRequests

\* the counter stored for pair p
Counter(p) == AsNumber(MemGet(store, getCounterKey(p.clientId, p.endpoint)))

\* C4 (as stated): under any interleaving of concurrent fixed-window checks on
\* one key the stored counter is at most maxRequests + 1.
C4_CounterAtMostOneOver ==
  \A p \in pairs : Counter(p) <= maxRequests + 1

\* C4 (amended): with NProc concurrent fixed-window checks on one key the
\* stored counter is at most maxRequests - 1 + NProc: each call in flight adds
\* at most one after reading a count below maxRequests.
C4_CounterBoundedByTasks ==
  \A p \in pairs : Counter(p) <= maxRequests - 1 + NProc

\* every task read a count below the limit and then incremented: the bound is met
C4_Witness ==
  /\ limiters = {"fixed"}
  /\ \E p \in pairs : Counter(p) = maxRequests - 1 + NProc
  /\ InFlight = {}

\* C5: fixed window: once maxRequests checks were admitted in window N, the
\* first maxRequests checks of window N+1 are all admitted.
C5_NextWindowAdmits ==
  \A p \in pairs :
    LET h == H("fixed", p)
        W(i) == WindowOf(h[i].t, WindowMs)
    IN \A k \in 1..Len(h) :
         LET before == {i \in 1..(k-1) : W(i) = W(k)}
             prev == {i \in 1..(k-1) : W(i) = W(k) - 1 /\ ~h[i].limited}
         IN (Cardinality(prev) >= maxRequests /\ Cardinality(before) < maxRequests)
              => ~h[k].limited

\* window N (N >= 1) was exhausted and a further check in it rejected, then
\* maxRequests = MaxReq checks of window N+1 were all admitted
C5_Witness ==
  /\ maxRequests = MaxReq
  /\ \E p \in pairs :
       LET h == H("fixed", p)
           W(i) == WindowOf(h[i].t, WindowMs)
           k == Len(h)
       IN /\ k = 2 * maxRequests + 1
          /\ \A i \in 1..maxRequests : ~h[i].limited /\ W(i) = W(1)
          /\ h[maxRequests + 1].limited /\ W(maxRequests + 1) = W(1)
          /\ \A i \in (maxRequests + 2)..k : ~h[i].limited /\ W(i) = W(1) + 1

\* C6 (as stated): sliding window: a check is admitted only if fewer than
\* maxRequests earlier admitted checks have age <= windowMs, that is, one of
\* the maxRequests logged timestamps has age strictly greater than windowMs.
C6_AdmittedOnlyPastWindow ==
  \A p \in pairs :
    LET h == H("sliding", p)
    IN \A k \in 1..Len(h) :
         ~h[k].limited =>
           Cardinality({i \in 1..(k-1) :
                          ~h[i].limited /\ h[k].t - h[i].t <= WindowMs}) < maxRequests

\* C6 (amended): sliding window: a check is admitted only if fewer than
\* maxRequests earlier admitted checks have age < windowMs: a logged timestamp
\* stops counting once its age is greater than or equal to windowMs.
C6_AdmittedOnlyAtExpiry ==
  \A p \in pairs :
    LET h == H("sliding", p)
    IN \A k \in 1..Len(h) :
         ~h[k].limited =>
           Cardinality({i \in 1..(k-1) :
                          ~h[i].limited /\ h[k].t - h[i].t < WindowMs}) < maxRequests

\* the log was full, a check was rejected while every entry was younger than
\* windowMs, and a later check was admitted when the oldest entry reached age
\* windowMs
C6_Witness ==
  \E p \in pairs :
    LET h == H("sliding", p)
        k == Len(h)
    IN /\ k = maxRequests + 2
       /\ \A i \in 1..maxRequests : ~h[i].limited
       /\ h[k - 1].limited
       /\ ~h[k].limited
       /\ h[k].t - h[1].t = WindowMs

\* the boundary burst for the calls h of one limiter: maxRequests checks at one
\* time t0 in window N, then one check at t1 in window N+1, t1 - t0 < windowMs
Burst(h) ==
  /\ Len(h) >= maxRequests + 1
  /\ \A i \in 1..maxRequests : h[i].t = h[1].t
  /\ WindowOf(h[maxRequests + 1].t, WindowMs) = WindowOf(h[1].t, WindowMs) + 1
  /\ h[maxRequests + 1].t - h[1].t < WindowMs

\* C7: boundary-burst divergence: after maxRequests checks at t0 in window N,
\* one more check at t1 in window N+1 with t1 - t0 < windowMs is admitted by the
\* fixed window and rejected by the sliding window.
C7_BoundaryBurstDivergence ==
  \A p \in pairs :
    /\ Burst(H("fixed", p)) => ~H("fixed", p)[maxRequests + 1].limited
    /\ Burst(H("sliding", p)) => H("sliding", p)[maxRequests + 1].limited

\* both limiters were given the burst, with N >= 1
C7_Witness ==
  \E p \in pairs :
    /\ Burst(H("fixed", p))
    /\ Burst(H("sliding", p))
    /\ WindowOf(H("fixed", p)[1].t, WindowMs) >= 1
    /\ WindowOf(H("sliding", p)[1].t, WindowMs) >= 1

\* C8: isolation: for every pair, identifiers with ':' included, the checks of
\* the other pairs change neither its decisions, nor its stored state, nor its
\* remaining quota: all are what the pair's own checks alone produce.
C8_PairsIsolated ==
  \A p \in pairs :
    LET h == SelectSeq(hist, LAMBDA e : e.pair = p)
        alone == Replay(EmptyStore, h, maxRequests)
    IN /\ Decisions(h) = alone.limited
       /\ \A alg \in limiters :
            /\ \A key \in KeysOf(alg, p) : MemGet(store, key) = MemGet(alone.store, key)
            /\ GetRemainingRequests(alg, store, p, maxRequests, WindowMs, now)
                 = GetRemainingRequests(alg, alone.store, p, maxRequests, WindowMs, now)

\* C9: the counter key, the window key and the log key are pairwise distinct
\* over all pairs, and on the shared storage each limiter decides and stores
\* what it does when it runs alone.
C9_NoCrossAlgorithmCollision ==
  /\ \A p \in pairs, q \in pairs :
       /\ getCounterKey(p.clientId, p.endpoint) # getWindowKey(q.clientId, q.endpoint)
       /\ getCounterKey(p.clientId, p.endpoint) # getKey(q.clientId, q.endpoint)
       /\ getWindowKey(p.clientId, p.endpoint) # getKey(q.clientId, q.endpoint)
  /\ \A alg \in limiters :
       LET h == SelectSeq(hist, LAMBDA e : e.alg = alg)
           alone == Replay(EmptyStore, h, maxRequests)
       IN /\ Decisions(h) = alone.limited
          /\ \A p \in pairs : \A key \in KeysOf(alg, p) :
               MemGet(store, key) = MemGet(alone.store, key)

\* both limiters have run for one pair with ':' in its identifiers
C9_Witness ==
  /\ getCounterKey(ColonPairA.clientId, ColonPairA.endpoint) \in DOMAIN store
  /\ getWindowKey(ColonPairA.clientId, ColonPairA.endpoint) \in DOMAIN store
  /\ getKey(ColonPairA.clientId, ColonPairA.endpoint) \in DOMAIN store
  /\ Len(hist) = IsoMaxOps

\* C10: within one window on a fresh key, getRemainingRequests after the j-th
\* admitted check (1 <= j <= maxRequests) is maxRequests - j, for both
\* limiters and every window id >= 0.
C10_RemainingCountsDown ==
  (ret.op = "getRemainingRequests") =>
    LET h == H(ret.alg, ret.pair)
        j == Admitted(h, Len(h))
    IN (h # <<>> /\ InOneWindow(ret.alg, h, Len(h), now) /\ j >= 1 /\ j <= maxRequests)
         => ret.value = maxRequests - j

\* the window or log of pair p is empty or stale at the current time: for the
\* fixed window no window id is stored or the stored one is not
\* floor(now / windowMs), for the sliding window no stored timestamp is
\* > now - windowMs
Stale(alg, p) ==
  IF alg = "fixed"
    THEN LET windowKey == getWindowKey(p.clientId, p.endpoint)
         IN windowKey \notin DOMAIN store
              \/ store[windowKey] # Num(WindowOf(now, WindowMs))
    ELSE LET timestamps == StoredLog(MemGet(store, getKey(p.clientId, p.endpoint)))
         IN \A i \in DOMAIN timestamps : ~(timestamps[i] > now - WindowMs)

\* C11: getResetTime returns 0 exactly when the window or log of the pair is
\* empty or stale, and a value r with 0 < r <= windowMs in every other state,
\* for both limiters and every window id >= 0.
C11_ResetTimeZeroIffStale ==
  (ret.op = "getResetTime") =>
    /\ (ret.value = 0) <=> Stale(ret.alg, ret.pair)
    /\ ~Stale(ret.alg, ret.pair) => (0 < ret.value /\ ret.value <= WindowMs)

\* the keys of pair p were used and the quota is due back: the stored window
\* id is not floor(now / windowMs), or every logged timestamp has expired
Restored(alg, p) ==
  /\ \A key \in KeysOf(alg, p) : key \in DOMAIN store
  /\ Stale(alg, p)

\* n sequential checks of limiter alg for pair p: the first j at time t, the
\* others d milliseconds later
ChecksAt(alg, p, n, j, t, d) ==
  [i \in 1..n |-> [alg |-> alg, pair |-> p, t |-> IF i <= j THEN t ELSE t + d, limited |-> FALSE]]

\* the results of a full quota: maxReq checks admitted, the one after rejected
FullQuota(maxReq) == [i \in 1..(maxReq + 1) |-> i > maxReq]

\* C12: quota restoration: once the fixed window has advanced or every logged
\* timestamp has expired, getRemainingRequests returns maxRequests, and the
\* next maxRequests checks of one window are admitted and the one after is
\* rejected, exactly as on a never-used key, whatever was admitted or rejected
\* before.
C12_QuotaRestored ==
  \A alg \in limiters, p \in pairs :
    Restored(alg, p) =>
      /\ GetRemainingRequests(alg, store, p, maxRequests, WindowMs, now) = maxRequests
      /\ \A j \in 1..(maxRequests + 1), d \in 0..(WindowMs - 1) :
           LET h == ChecksAt(alg, p, maxRequests + 1, j, now, d)
           IN InOneWindow(alg, h, Len(h), now + d) =>
                /\ Replay(store, h, maxRequests).limited = FullQuota(maxRequests)
                /\ Replay(EmptyStore, h, maxRequests).limited = FullQuota(maxRequests)

\* the quota of maxRequests = MaxReq was used up and a check rejected, and
\* the window has advanced or the whole log has expired since
C12_Witness ==
  /\ maxRequests = MaxReq
  /\ \E alg \in limiters, p \in pairs :
       /\ Restored(alg, p)
       /\ Admitted(H(alg, p), Len(H(alg, p))) = maxRequests
       /\ Len(H(alg, p)) > maxRequests

\* ------------------------------------------------------------------ storage operations
\* MemoryStorage.decrement: Math.max(0, currentValue - 1) for a number, nothing otherwise
MemDecrement(s, key) ==
  IF key \in DOMAIN s /\ IsNumber(s[key])
    THEN MemSet(s, key, Num(MathMax0(s[key].num - 1)))
    ELSE s

\* MemoryStorage.reset: this.storage.delete(key)
MemReset(s, key) == [k \in DOMAIN s \ {key} |-> s[k]]

\* what a call with no value resolves to (Promise<void>)
Void == [void |-> TRUE]

\* ------------------------------------------------------------------ the strings the Redis server holds
\* A value of the Redis server is a string; RedisStorage writes value.toString()
\* or JSON.stringify(value) and reads with JSON.parse and parseInt.
Str(s) == [str |-> s]

NaN == [nan |-> TRUE]

Throws == [throws |-> TRUE]

DecimalDigits == "0123456789"

DigitChar(d) == SubSeq(DecimalDigits, d + 1, d + 1)

IsDigit(c) == \E d \in 0..9 : DigitChar(d) = c

DigitVal(c) == CHOOSE d \in 0..9 : DigitChar(d) = c

RECURSIVE NatToString(_)
NatToString(n) ==
  IF n < 10 THEN DigitChar(n) ELSE NatToString(n \div 10) \o DigitChar(n % 10)

\* value.toString(), for an integer
NumberToString(n) == IF n < 0 THEN "-" \o NatToString(-n) ELSE NatToString(n)

RECURSIVE JoinNumbers(_)
JoinNumbers(ts) ==
  IF ts = <<>> THEN ""
  ELSE IF Len(ts) = 1 THEN NumberToString(ts[1])
  ELSE NumberToString(Head(ts)) \o "," \o JoinNumbers(Tail(ts))

\* JSON.stringify(value), for an array of integers
JSONStringify(ts) == "[" \o JoinNumbers(ts) \o "]"

RECURSIVE LeadingDigits(_)
\* the longest prefix of s made of decimal digits
LeadingDigits(s) ==
  IF s = "" THEN ""
  ELSE IF IsDigit(Head(s)) THEN Head(s) \o LeadingDigits(Tail(s))
  ELSE ""

RECURSIVE DigitsValue(_, _)
DigitsValue(s, acc) ==
  IF s = "" THEN acc ELSE DigitsValue(Tail(s), acc * 10 + DigitVal(Head(s)))

\* parseInt(s, 10): an optional sign, then the leading digits; NaN without digits
ParseInt(s) ==
  LET signed == s # "" /\ (Head(s) = "-" \/ Head(s) = "+")
      body == IF signed THEN Tail(s) ELSE s
      ds == LeadingDigits(body)
  IN IF ds = "" THEN NaN
     ELSE IF signed /\ Head(s) = "-" THEN Num(0 - DigitsValue(ds, 0))
     ELSE Num(DigitsValue(ds, 0))

\* s is the text of an integer: an optional '-' and digits only
IsIntegerText(s) ==
  LET body == IF s # "" /\ Head(s) = "-" THEN Tail(s) ELSE s
  IN body # "" /\ LeadingDigits(body) = body

RECURSIVE UpToComma(_)
UpToComma(s) ==
  IF s = "" THEN ""
  ELSE IF Head(s) = "," THEN ""
  ELSE Head(s) \o UpToComma(Tail(s))

RECURSIVE SplitAtCommas(_)
SplitAtCommas(s) ==
  LET first == UpToComma(s)
  IN IF Len(first) = Len(s) THEN <<first>>
     ELSE <<first>> \o SplitAtCommas(SubSeq(s, Len(first) + 2, Len(s)))

\* JSON.parse(s), for the texts RedisStorage meets: an array of integers, an
\* integer, or a text that is not JSON (JSON.parse throws)
JSONParse(s) ==
  IF Len(s) >= 2 /\ Head(s) = "[" /\ SubSeq(s, Len(s), Len(s)) = "]"
    THEN LET inner == SubSeq(s, 2, Len(s) - 1)
             parts == SplitAtCommas(inner)
         IN IF inner = "" THEN Arr(<<>>)
            ELSE IF \A i \in DOMAIN parts : IsIntegerText(parts[i])
              THEN Arr([i \in DOMAIN parts |-> ParseInt(parts[i]).num])
              ELSE Throws
  ELSE IF IsIntegerText(s) THEN ParseInt(s)
  ELSE Throws

\* ------------------------------------------------------------------ the Redis server and RedisStorage
\* an operation that ends in an error
Failed(why) == [error |-> why]

IsFailed(r) == DOMAIN r = {"error"}

\* GET key: the string stored, or null
RedisGET(s, key) == IF key \in DOMAIN s THEN s[key] ELSE Null

\* INCR key / DECR key: the integer stored (0 for an absent key) plus d; an
\* error reply when the string stored is not an integer
RedisINCRBY(s, key, d) ==
  IF key \notin DOMAIN s
    THEN [store |-> MemSet(s, key, Str(NumberToString(d))), result |-> Void]
  ELSE IF IsIntegerText(s[key].str)
    THEN [store |-> MemSet(s, key, Str(NumberToString(ParseInt(s[key].str).num + d))),
          result |-> Void]
  ELSE [store |-> s, result |-> Failed("ERR value is not an integer or out of range")]

\* if (!value): null and the empty string are falsy
NoValue(value) == value = Null \/ value = Str("")

\* mutant: every reply is read with parseInt, no JSON.parse
RedisGetResult_NumbersOnly(value) ==
  IF NoValue(value) THEN Null ELSE ParseInt(value.str)

\* RedisStorage.get, from the reply of client.get
RedisGetResult(value) ==
  IF NoValue(value) THEN Null
  ELSE LET parsed == JSONParse(value.str)
       IN IF IsArray(parsed) THEN parsed ELSE ParseInt(value.str)

\* RedisStorage.set: JSON.stringify(value) for an array, value.toString() otherwise
RedisSetText(value) ==
  IF IsArray(value) THEN JSONStringify(value.arr) ELSE NumberToString(value.num)

\* the command of operation op, run by the server on its data s: the data
\* after it and what the operation resolves to
RedisCommand(s, op, key, value) ==
  CASE op = "get" -> [store |-> s, result |-> RedisGetResult(RedisGET(s, key))]
    [] op = "set" -> [store |-> MemSet(s, key, Str(RedisSetText(value))), result |-> Void]
    [] op = "increment" -> RedisINCRBY(s, key, 1)
    [] op = "decrement" -> RedisINCRBY(s, key, 0 - 1)
    [] op = "reset" -> [store |-> MemReset(s, key), result |-> Void]

\* operation op of MemoryStorage on its Map s
MemoryOp(s, op, key, value) ==
  CASE op = "get" -> [store |-> s, result |-> MemGet(s, key)]
    [] op = "set" -> [store |-> MemSet(s, key, value), result |-> Void]
    [] op = "increment" -> [store |-> MemIncrement(s, key), result |-> Void]
    [] op = "decrement" -> [store |-> MemDecrement(s, key), result |-> Void]
    [] op = "reset" -> [store |-> MemReset(s, key), result |-> Void]

\* ------------------------------------------------------------------ runs of storage operations
\* number of storage operations of a run, and of a run with connection loss
StoreMaxOps == 3
RedisMaxOps == 2

StoreOps == {"get", "set", "increment", "decrement", "reset"}

\* the key the operations go to
StoreKey == getCounterKey(TestPair.clientId, TestPair.endpoint)

\* the values set: counts, 0 included, and timestamp arrays, [] included
StoreValues == {Num(0), Num(12), Arr(<<>>), Arr(<<3, 10>>)}

\* the value argument of operation op
ValuesOf(op, values) == IF op = "set" THEN values ELSE {Void}

\* the operation of task self is over: it joins hist with what it resolved to
Settle(self, call, result) ==
  /\ hist' = Append(hist, [op |-> call.op, key |-> call.key, value |-> call.value,
                           flag |-> call.flag, attempts |-> call.attempts,
                           failures |-> call.failures, down |-> call.down,
                           result |-> result])
  /\ pc' = [pc EXCEPT ![self] = "idle"]
  /\ loc' = [loc EXCEPT ![self] = IdleLoc]

\* a new operation goes to the first idle task
MayCall(self) ==
  /\ pc[self] = "idle"
  /\ \A other \in Procs : other < self => pc[other] # "idle"
  /\ Len(hist) + Cardinality(InFlight) < StoreMaxOps

\* the locals of a storage operation that starts
NewCall(op, value) ==
  [op |-> op, key |-> StoreKey, value |-> value, flag |-> conn.isConnected,
   attempts |-> 0, failures |-> 0, down |-> FALSE]

\* an operation of MemoryStorage: its body has no await, it runs in one step
MemCall(self, op, value) ==
  /\ backend = "memory"
  /\ MayCall(self)
  /\ LET r == MemoryOp(store, op, StoreKey, value)
     IN /\ store' = r.store
        /\ Settle(self, [NewCall(op, value) EXCEPT !.flag = TRUE], r.result)
  /\ UNCHANGED <<now, maxRequests, pairs, limiters, ret, backend, conn>>

\* mutant: the connection is made anew for every operation
NeedsConnect_Always(isConnected) == TRUE

\* ensureConnection: if (!this.isConnected)
NeedsConnect(isConnected) == ~isConnected

\* an operation of RedisStorage is called: await this.ensureConnection()
RIssue(self, op, value) ==
  /\ backend = "redis"
  /\ MayCall(self)
  /\ loc' = [loc EXCEPT ![self] = NewCall(op, value)]
  /\ pc' = [pc EXCEPT ![self] = IF NeedsConnect(conn.isConnected) THEN "rConnect" ELSE "rCommand"]
  /\ UNCHANGED <<store, now, maxRequests, pairs, limiters, hist, ret, backend, conn>>

\* connect: await this.client.connect() settles.  Without a connection the
\* attempt either succeeds, and the 'connect' event sets isConnected, or fails,
\* and the error is caught and logged; either way the operation goes on.
RConnect(self, reachable) ==
  /\ pc[self] = "rConnect"
  /\ conn.link \in {"up", "down"}
  /\ IF conn.link = "up"
       THEN /\ loc' = [loc EXCEPT ![self].attempts = @ + 1]
            /\ UNCHANGED conn
       ELSE IF reachable
         THEN /\ conn' = [conn EXCEPT !.link = "up", !.isConnected = TRUE]
              /\ loc' = [loc EXCEPT ![self].attempts = @ + 1]
         ELSE /\ conn' = [conn EXCEPT !.logged = @ + 1]
              /\ loc' = [loc EXCEPT ![self].attempts = @ + 1, ![self].failures = @ + 1]
  /\ pc' = [pc EXCEPT ![self] = "rCommand"]
  /\ UNCHANGED <<store, now, maxRequests, pairs, limiters, hist, ret, backend>>

\* mutant: the rejection of the client is caught and the operation resolves to null
Rejected_Swallowed(error) == Null

\* await this.client.<command>(...) outside any try: the rejection is the
\* operation's
Rejected(error) == Failed(error)

\* the command reaches the server, which runs it in one step, and the reply settles
\* the operation
RCommand(self) ==
  /\ pc[self] = "rCommand"
  /\ conn.link = "up"
  /\ LET call == loc[self]
         r == RedisCommand(store, call.op, call.key, call.value)
     IN /\ store' = r.store
        /\ Settle(self, [call EXCEPT !.down = FALSE],
                  IF IsFailed(r.result) THEN Rejected(r.result.error) ELSE r.result)
  /\ UNCHANGED <<now, maxRequests, pairs, limiters, ret, backend, conn>>

\* the command is given to a client without a connection: the client rejects it
RReject(self) ==
  /\ pc[self] = "rCommand"
  /\ conn.link = "down"
  /\ Settle(self, [loc[self] EXCEPT !.down = TRUE], Rejected("The client is closed"))
  /\ UNCHANGED <<store, now, maxRequests, pairs, limiters, ret, backend, conn>>

\* the connection is lost: the 'error' event clears isConnected
LinkDown ==
  /\ conn.link \in {"up", "silent"}
  /\ conn' = [conn EXCEPT !.link = "down", !.isConnected = FALSE]
  /\ UNCHANGED <<store, now, maxRequests, pairs, limiters, hist, ret, pc, loc, backend>>

\* the client reconnects on its own: the 'connect' event sets isConnected
LinkUp ==
  /\ conn.link = "down"
  /\ conn' = [conn EXCEPT !.link = "up", !.isConnected = TRUE]
  /\ UNCHANGED <<store, now, maxRequests, pairs, limiters, hist, ret, pc, loc, backend>>

\* the connection stays open but the server stops replying
LinkSilent ==
  /\ conn.link = "up"
  /\ conn' = [conn EXCEPT !.link = "silent"]
  /\ UNCHANGED <<store, now, maxRequests, pairs, limiters, hist, ret, pc, loc, backend>>

\* the state after construction of a storage: for RedisStorage the connect() of
\* the constructor has settled
StorageInit(backends, conns) ==
  /\ store = EmptyStore
  /\ now = 0
  /\ maxRequests = 1
  /\ pairs = {TestPair}
  /\ limiters = {}
  /\ hist = <<>>
  /\ ret = NoRet
  /\ pc = [self \in Procs |-> "idle"]
  /\ loc = [self \in Procs |-> IdleLoc]
  /\ backend \in backends
  /\ conn \in IF backend = "memory" THEN {NoConn} ELSE conns

\* the constructor's connect() succeeded
Connected == [link |-> "up", isConnected |-> TRUE, logged |-> 0]

\* the constructor's connect() failed; logged counts the lines logged since
Disconnected == [link |-> "down", isConnected |-> FALSE, logged |-> 0]

\* operations of either backend, the connection to the Redis server being kept
StoreInit == StorageInit({"memory", "redis"}, {Connected})

StoreNext ==
  \/ \E self \in Procs, op \in StoreOps :
       \E value \in ValuesOf(op, StoreValues) : MemCall(self, op, value)
  \/ \E self \in Procs, op \in StoreOps :
       \E value \in ValuesOf(op, StoreValues) : RIssue(self, op, value)
  \/ \E self \in Procs : RCommand(self)

StoreSpec == StoreInit /\ [][StoreNext]_vars

\* operations of RedisStorage while the connection comes and goes
RedisInit == StorageInit({"redis"}, {Connected, Disconnected})

RedisNext ==
  \/ \E self \in Procs, op \in StoreOps :
       \E value \in ValuesOf(op, {Num(1)}) :
         Len(hist) + Cardinality(InFlight) < RedisMaxOps /\ RIssue(self, op, value)
  \/ \E self \in Procs, reachable \in BOOLEAN : RConnect(self, reachable)
  \/ \E self \in Procs : RCommand(self)
  \/ \E self \in Procs : RReject(self)
  \/ LinkDown
  \/ LinkUp
  \/ LinkSilent

RedisSpec == RedisInit /\ [][RedisNext]_vars

\* ------------------------------------------------------------------ claims on the storage backends
\* what get(key) of the run's backend returns in the current state
Stored(key) ==
  IF backend = "memory" THEN MemGet(store, key) ELSE RedisGetResult(RedisGET(store, key))

\* the operations of hist that wrote, or may have written, the key
IsWrite(e) == e.op \in {"set", "increment", "decrement", "reset"} /\ ~IsFailed(e.result)

\* the index of the last write among the first n operations of hist, 0 if none
LastWrite(n, ops) ==
  LET ws == {i \in 1..n : IsWrite(hist[i]) /\ hist[i].op \in ops}
  IN IF ws = {} THEN 0 ELSE CHOOSE i \in ws : \A j \in ws : j <= i

AllWrites == {"set", "increment", "decrement", "reset"}

\* C13: increment on an absent key leaves the count at 1, and k increments,
\* interleaved in any way, raise the stored count by exactly k, on both
\* backends: after a key was reset or never written, or set to a count v, and
\* then incremented k >= 1 times with no other write, its count is 0 + k or v + k.
C13_NoIncrementLost ==
  LET j == LastWrite(Len(hist), AllWrites \ {"increment"})
      k == Cardinality({i \in (j + 1)..Len(hist) : IsWrite(hist[i])})
      counted == j = 0 \/ hist[j].op = "reset" \/ (hist[j].op = "set" /\ IsNumber(hist[j].value))
      base == IF j > 0 /\ hist[j].op = "set" THEN hist[j].value.num ELSE 0
  IN (counted /\ k >= 1) => Stored(StoreKey) = Num(base + k)

\* on the Redis backend two increments have settled while a third was in
\* flight, and the count is 2
C13_Witness ==
  /\ backend = "redis"
  /\ Len(hist) = 2
  /\ \A i \in 1..2 : hist[i].op = "increment" /\ ~IsFailed(hist[i].result)
  /\ \E self \in Procs : pc[self] = "rCommand" /\ loc[self].op = "increment"
  /\ Stored(StoreKey) = Num(2)

\* C14: decrement is floored at zero on both backends: the stored count of a
\* key is never negative, and decrements of a count set to 0 leave it at 0.
C14_DecrementFloored ==
  /\ IsNumber(Stored(StoreKey)) => Stored(StoreKey).num >= 0
  /\ LET j == LastWrite(Len(hist), AllWrites \ {"decrement"})
     IN (j > 0 /\ hist[j].op = "set" /\ hist[j].value = Num(0)) => Stored(StoreKey) = Num(0)

\* C15: get returns null for a key never written and for a key after reset, and
\* the value v of the last set when no write came in between, for counts (0
\* included) and timestamp arrays ([] included), on both backends.
C15_GetSetReset ==
  \A i \in 1..Len(hist) :
    (hist[i].op = "get" /\ ~IsFailed(hist[i].result)) =>
      LET j == LastWrite(i - 1, AllWrites)
      IN /\ (j = 0 \/ hist[j].op = "reset") => hist[i].result = Null
         /\ (j > 0 /\ hist[j].op = "set") => hist[i].result = hist[j].value

\* on the Redis backend a get returned null, and the next one the count 0
\* set in between
C15_Witness ==
  /\ backend = "redis"
  /\ Len(hist) = 3
  /\ hist[1].op = "get" /\ hist[1].result = Null
  /\ hist[2].op = "set" /\ hist[2].value = Num(0)
  /\ hist[3].op = "get" /\ hist[3].result = Num(0)

\* C16: under any interleaving of concurrent sliding-window checks the log
\* stored for a key holds at most maxRequests timestamps, so at most
\* maxRequests of them lie in (now - windowMs, now].
C16_LogAtMostMax ==
  \A p \in pairs :
    LET log == StoredLog(MemGet(store, getKey(p.clientId, p.endpoint)))
    IN /\ Len(log) <= maxRequests
       /\ Cardinality({i \in DOMAIN log : log[i] > now - WindowMs /\ log[i] <= now})
            <= maxRequests

\* concurrent checks raced: more than maxRequests = MaxReq were admitted at
\* one time, and the stored log is full
C16_Witness ==
  /\ limiters = {"sliding"}
  /\ maxRequests = MaxReq
  /\ InFlight = {}
  /\ \E p \in pairs :
       /\ Len(StoredLog(MemGet(store, getKey(p.clientId, p.endpoint)))) = maxRequests
       /\ Cardinality({i \in 1..Len(hist) : ~hist[i].limited /\ hist[i].t = hist[1].t})
            > maxRequests

\* RedisStorage with every step of an operation taken once its await can settle;
\* the connection and the server owe nothing
RedisFairSpec ==
  /\ RedisInit
  /\ [][RedisNext]_vars
  /\ \A self \in Procs :
       /\ SF_vars(\E reachable \in BOOLEAN : RConnect(self, reachable))
       /\ SF_vars(RCommand(self))
       /\ SF_vars(RReject(self))

C19_EveryOperationCompletes ==
  \A self \in Procs : (pc[self] # "idle") ~> (pc[self] = "idle")

\* the storage operations called and not settled, and those settled
Calls ==
  {loc[self] : self \in {t \in Procs : pc[t] = "rCommand"}}
    \cup {hist[i] : i \in 1..Len(hist)}

\* C20: lazy reconnection: an operation called while isConnected is false has
\* made exactly one connection attempt when its command is issued, a failed
\* attempt is logged once and not repeated, and an operation called while
\* isConnected is true makes no attempt.
C20_OneAttemptWhenDisconnected ==
  /\ \A c \in Calls :
       /\ c.attempts = (IF c.flag THEN 0 ELSE 1)
       /\ c.failures <= c.attempts
  /\ \A self \in Procs : pc[self] = "rConnect" => (~loc[self].flag /\ loc[self].attempts = 0)
  /\ LET FailuresOf(self) == IF pc[self] = "rCommand" THEN loc[self].failures ELSE 0
         RECURSIVE SumTasks(_)
         SumTasks(n) == IF n = 0 THEN 0 ELSE FailuresOf(n) + SumTasks(n - 1)
         RECURSIVE SumHist(_)
         SumHist(n) == IF n = 0 THEN 0 ELSE hist[n].failures + SumHist(n - 1)
     IN conn.logged = SumTasks(NProc) + SumHist(Len(hist))

\* one operation was called while disconnected and its one attempt failed and
\* was logged, the next was called while connected and made no attempt
C20_Witness ==
  /\ Len(hist) = 2
  /\ ~hist[1].flag /\ hist[1].attempts = 1 /\ hist[1].failures = 1
  /\ hist[2].flag /\ hist[2].attempts = 0
  /\ conn.logged = 1

\* ------------------------------------------------------------------ the middleware over a storage that fails
\* number of requests of a run through the middleware
GateMaxOps == 3

\* the awaits of isRateLimited on a storage call
StorageAwaits ==
  {"fGetWindow", "fSetCounter", "fSetWindow", "fGetCount", "fIncrement", "sGet", "sSet"}

\* the storage call awaited by task self rejects: isRateLimited has no
\* try/catch, so the call it is part of rejects with that error, whatever it
\* has written so far
StorageFails(self) ==
  /\ pc[self] \in StorageAwaits
  /\ conn.link = "down"
  /\ hist' = Append(hist, [alg |-> Route.alg, pair |-> Route.pair, t |-> loc[self].t,
                           error |-> "The client is closed"])
  /\ pc' = [pc EXCEPT ![self] = "idle"]
  /\ loc' = [loc EXCEPT ![self] = IdleLoc]
  /\ UNCHANGED <<store, now, maxRequests, pairs, limiters, ret, backend, conn>>

\* the storage call awaited by task self is answered
StorageAnswers(self) ==
  /\ conn.link = "up"
  /\ \/ FGetWindow(self)
     \/ FSetCounter(self)
     \/ FSetWindow(self)
     \/ FGetCount(self)
     \/ FIncrement(self)
     \/ SGet(self)
     \/ SSet(self)

\* the middleware has resumed after the last isRateLimited call
Responded == hist = <<>> \/ (ret.op = "rateLimit" /\ ret.n = Len(hist))

\* mutant: the await is wrapped in a try/catch that lets the request through
Respond_FailOpen(settled) ==
  IF "error" \in DOMAIN settled THEN "next"
  ELSE IF settled.limited THEN "429"
  ELSE "next"

\* const isLimited = await limiter.isRateLimited(...), outside any try/catch:
\* a rejection rejects the handler's promise; otherwise 429 or next()
Respond(settled) ==
  IF "error" \in DOMAIN settled THEN "rejects"
  ELSE IF settled.limited THEN "429"
  ELSE "next"

\* a request reaches the middleware, which calls limiter.isRateLimited
GateRequest(self) ==
  /\ Responded
  /\ Len(hist) < GateMaxOps
  /\ Start(self)

\* the middleware resumes with what isRateLimited settled to
GateRespond ==
  /\ ~Responded
  /\ InFlight = {}
  /\ ret' = [op |-> "rateLimit", n |-> Len(hist), outcome |-> Respond(hist[Len(hist)])]
  /\ UNCHANGED <<store, now, maxRequests, pairs, limiters, hist, pc, loc, backend, conn>>

\* the middleware with a limiter (customLimiter) on a RedisStorage; the values
\* the limiter reads back are those it wrote
GateInit ==
  /\ store = EmptyStore
  /\ now = WindowMs
  /\ maxRequests \in 1..MaxReq
  /\ pairs = {TestPair}
  /\ limiters \in {{"fixed"}, {"sliding"}}
  /\ hist = <<>>
  /\ ret = NoRet
  /\ pc = [self \in Procs |-> "idle"]
  /\ loc = [self \in Procs |-> IdleLoc]
  /\ backend = "redis"
  /\ conn \in {Connected, Disconnected}

GateNext ==
  \/ \E self \in Procs : GateRequest(self)
  \/ \E self \in Procs : StorageAnswers(self)
  \/ \E self \in Procs : StorageFails(self)
  \/ GateRespond
  \/ LinkDown
  \/ LinkUp

GateSpec == GateInit /\ [][GateNext]_vars

\* C18: when a storage operation inside isRateLimited fails, the call fails
\* with that error and the middleware's handler rejects with it: the handler
\* calls next() only after a check that returned false, and never after a
\* failure.
C18_FailureNotAdmitted ==
  (ret.op = "rateLimit") =>
    LET settled == hist[ret.n]
    IN /\ ("error" \in DOMAIN settled) => ret.outcome = "rejects"
       /\ ret.outcome = "next" => ("limited" \in DOMAIN settled /\ ~settled.limited)
       /\ ret.outcome = "429" => ("limited" \in DOMAIN settled /\ settled.limited)

\* a check settled with a result, then the storage failed during the check
\* of the next request and the handler rejected
C18_Witness ==
  /\ ret.op = "rateLimit"
  /\ ret.n = 2
  /\ "limited" \in DOMAIN hist[1]
  /\ "error" \in DOMAIN hist[2]
  /\ ret.outcome = "rejects"

\* ------------------------------------------------------------------ the rateLimit middleware
\* Math.ceil(windowMs / 1000): milliseconds in a second
SecondMs == 1000

\* the windowMs of the configured rate limits, in seconds, the number of
\* requests of a run and the number of clock steps of half a second
MwWindowSec == 2
MwMaxOps == 3
MwMaxTicks == 7

\* the windowMs of every configured rate limit
MwWindowMs == MwWindowSec * SecondMs

\* Math.ceil(n / d), for n >= 0 and d > 0
Ceil(n, d) == (n + d - 1) \div d

\* config/clients.ts: the ids of the clients and the routes each has a rate limit for
clients == {"client-1", "client-2"}

ConfiguredRoutes == {"foo", "bar"}

\* the requests: clientId "" stands for a request without clientId
Requests ==
  {[clientId |-> c, baseUrl |-> b, path |-> "/"] :
     c \in {"", "client-1", "client-3"}, b \in {"/foo", "/baz"}}
    \cup {[clientId |-> "client-1", baseUrl |-> "", path |-> "/bar"]}

\* s.replace('/', ''): the first '/' is removed
ReplaceSlash(s) ==
  IF \E i \in 1..Len(s) : SubSeq(s, i, i) = "/"
    THEN LET i == CHOOSE i \in 1..Len(s) :
                    SubSeq(s, i, i) = "/" /\ \A j \in 1..(i - 1) : SubSeq(s, j, j) # "/"
         IN SubSeq(s, 1, i - 1) \o SubSeq(s, i + 1, Len(s))
    ELSE s

\* req.baseUrl.replace('/', '') || req.path.replace('/', '')
RouteOf(req) ==
  IF ReplaceSlash(req.baseUrl) # "" THEN ReplaceSlash(req.baseUrl) ELSE ReplaceSlash(req.path)

\* mutant: an unknown client is served with the limits of the first client
FindClient_DefaultsToFirst(clientId) == IF clientId \in clients THEN clientId ELSE "client-1"

\* clients.find(c => c.id === req.clientId): the client's id, "" when none is found
FindClient(clientId) == IF clientId \in clients THEN clientId ELSE ""

\* client.rateLimits[route]: Null when the route has no entry
RateLimitOf(route, maxReq) ==
  IF route \in ConfiguredRoutes
    THEN [maxRequests |-> maxReq, windowMs |-> MwWindowMs]
    ELSE Null

\* res.status(status).json({ error, code }) without a limiter call
Refuse(s, status, code) ==
  [store |-> s, calls |-> 0, limited |-> FALSE, status |-> status, code |-> code,
   headers |-> <<>>, next |-> FALSE]

\* the headers set before the decision is looked at
LimitHeaders(maxReq, windowMs, strategy) ==
  ("X-RateLimit-Limit" :> maxReq) @@ ("X-RateLimit-Window-Ms" :> windowMs)
    @@ ("X-RateLimit-Strategy" :> strategy)

\* Math.ceil(clientRateLimit.windowMs / 1000)
RetryAfter(windowMs) == Ceil(windowMs, SecondMs)

\* mutant: a request that was let through is checked a second time
LimiterCall_Twice(strategy, s, p, maxReq, windowMs, t) ==
  LET r == IsRateLimited(strategy, s, p, maxReq, windowMs, t)
  IN IF r.limited THEN r
     ELSE [r EXCEPT !.store = IsRateLimited(strategy, r.store, p, maxReq, windowMs, t).store]

\* await limiter.isRateLimited(...): one call
LimiterCall(strategy, s, p, maxReq, windowMs, t) ==
  IsRateLimited(strategy, s, p, maxReq, windowMs, t)

\* the handler of rateLimit(strategy), run with no other request in between:
\* the storage after it, the number of isRateLimited calls, the response sent
\* (status 0: none) and whether next() was called
RateLimitHandler(strategy, s, req, maxReq, t) ==
  IF req.clientId = "" THEN Refuse(s, 401, "UNAUTHORIZED")
  ELSE IF FindClient(req.clientId) = "" THEN Refuse(s, 401, "INVALID_CLIENT")
  ELSE LET route == RouteOf(req)
           clientRateLimit == RateLimitOf(route, maxReq)
       IN IF clientRateLimit = Null THEN Refuse(s, 400, "NO_RATE_LIMIT_CONFIG")
          ELSE LET r == LimiterCall(strategy, s,
                                    [clientId |-> req.clientId, endpoint |-> route],
                                    clientRateLimit.maxRequests, clientRateLimit.windowMs, t)
                   hs == LimitHeaders(clientRateLimit.maxRequests, clientRateLimit.windowMs,
                                      strategy)
               IN IF r.limited
                    THEN [store |-> r.store, calls |-> 1, limited |-> TRUE, status |-> 429,
                          code |-> "RATE_LIMIT_EXCEEDED",
                          headers |-> hs @@ ("X-RateLimit-Remaining" :> 0)
                                        @@ ("Retry-After" :> RetryAfter(clientRateLimit.windowMs)),
                          next |-> FALSE]
                    ELSE [store |-> r.store, calls |-> 1, limited |-> FALSE, status |-> 0,
                          code |-> "", headers |-> hs, next |-> TRUE]

\* one request goes through the handler
MwRequest(strategy, req) ==
  /\ Len(hist) < MwMaxOps
  /\ LET r == RateLimitHandler(strategy, store, req, maxRequests, now)
         p == [clientId |-> req.clientId, endpoint |-> RouteOf(req)]
     IN /\ store' = r.store
        /\ hist' = IF r.calls = 0 THEN hist
                   ELSE Append(hist, [alg |-> strategy, pair |-> p, t |-> now,
                                      limited |-> r.limited])
        /\ ret' = [op |-> "request", strategy |-> strategy, req |-> req, pair |-> p,
                   calls |-> r.calls, status |-> r.status, code |-> r.code,
                   headers |-> r.headers, next |-> r.next]
  /\ UNCHANGED <<now, maxRequests, pairs, limiters, pc, loc, backend, conn>>

\* the clock advances by half a second
MwTick ==
  /\ now < MwMaxTicks * (SecondMs \div 2)
  /\ now' = now + SecondMs \div 2
  /\ ret' = NoRet
  /\ UNCHANGED <<store, maxRequests, pairs, limiters, hist, pc, loc, backend, conn>>

\* a router with rateLimit('fixed') or rateLimit('sliding') on its routes,
\* started in window 0 or in window 1
MwInit ==
  /\ store = EmptyStore
  /\ now \in {0, MwWindowMs}
  /\ maxRequests \in 1..MaxReq
  /\ pairs = {[clientId |-> c, endpoint |-> e] : c \in clients, e \in ConfiguredRoutes}
  /\ limiters \in {{"fixed"}, {"sliding"}}
  /\ hist = <<>>
  /\ ret = NoRet
  /\ pc = [self \in Procs |-> "idle"]
  /\ loc = [self \in Procs |-> IdleLoc]
  /\ backend = "memory"
  /\ conn = NoConn

MwNext ==
  \/ \E strategy \in limiters, req \in Requests : MwRequest(strategy, req)
  \/ MwTick

MwSpec == MwInit /\ [][MwNext]_vars

\* ------------------------------------------------------------------ claims about the middleware
\* the response a request must get before the limiter is asked, "" when it must reach the limiter
Classified(req) ==
  IF req.clientId = "" THEN "UNAUTHORIZED"
  ELSE IF req.clientId \notin clients THEN "INVALID_CLIENT"
  ELSE IF RouteOf(req) \notin ConfiguredRoutes THEN "NO_RATE_LIMIT_CONFIG"
  ELSE ""

StatusOf(code) == IF code = "NO_RATE_LIMIT_CONFIG" THEN 400 ELSE 401

\* C21: the middleware calls the limiter only for a request with a clientId of
\* a configured client and a route that client has a rate limit for; every
\* other request is answered with UNAUTHORIZED (401), INVALID_CLIENT (401) or
\* NO_RATE_LIMIT_CONFIG (400) and leaves the storage as it was.
C21_InvalidRequestsRefused ==
  [][ret'.op = "request" =>
       IF Classified(ret'.req) = ""
         THEN ret'.calls = 1
         ELSE /\ ret'.calls = 0
              /\ ret'.code = Classified(ret'.req)
              /\ ret'.status = StatusOf(ret'.code)
              /\ ~ret'.next
              /\ store' = store
              /\ hist' = hist]_vars

\* an unknown client was refused while the storage held other clients' quota
C21_Witness ==
  /\ ret.op = "request"
  /\ ret.code = "INVALID_CLIENT"
  /\ ret.status = 401
  /\ ret.calls = 0
  /\ store # EmptyStore

\* ------------------------------------------------------------------ limits that are not positive
\* a limiter is called with any maxRequests the configuration holds: nothing
\* in the limiters, the middleware or config/clients.ts validates it
ConfigInit ==
  /\ store = EmptyStore
  /\ now \in {0, WindowMs}
  /\ maxRequests \in (0 - 1)..MaxReq
  /\ pairs = {TestPair}
  /\ limiters \in {{"fixed"}, {"sliding"}}
  /\ hist = <<>>
  /\ ret = NoRet
  /\ pc = [self \in Procs |-> "idle"]
  /\ loc = [self \in Procs |-> IdleLoc]
  /\ backend = "memory"
  /\ conn = NoConn

ConfigSpec == ConfigInit /\ [][Next]_vars

\* C22: a check with maxRequests <= 0 ends in an InvalidConfig error and
\* makes no storage access: no call returns a decision and nothing is stored.
C22_InvalidConfigRejected ==
  maxRequests <= 0 => (store = EmptyStore /\ ret.op # "isRateLimited")

\* the 429 of the last request
Rejected429 == ret.op = "request" /\ ret.status = 429

\* C23: a 429 carries Retry-After = ceil(resetMs / 1000), resetMs being the
\* strategy's getResetTime for the key at that moment, and the headers
\* X-RateLimit-Limit, X-RateLimit-Window-Ms, X-RateLimit-Strategy and
\* X-RateLimit-Remaining.
C23_RetryAfterIsResetTime ==
  Rejected429 =>
    /\ {"Retry-After", "X-RateLimit-Limit", "X-RateLimit-Window-Ms", "X-RateLimit-Strategy",
        "X-RateLimit-Remaining"} \subseteq DOMAIN ret.headers
    /\ ret.headers["Retry-After"] =
         Ceil(GetResetTime(ret.strategy, store, ret.pair, MwWindowMs, now), SecondMs)

\* C24: every response to a request that reached the admission check carries
\* X-RateLimit-Limit, X-RateLimit-Window-Ms, X-RateLimit-Strategy and
\* X-RateLimit-Remaining, the last one being the quota left after the check.
C24_HeadersOnEveryResponse ==
  (ret.op = "request" /\ ret.calls = 1) =>
    /\ {"X-RateLimit-Limit", "X-RateLimit-Window-Ms", "X-RateLimit-Strategy",
        "X-RateLimit-Remaining"} \subseteq DOMAIN ret.headers
    /\ ret.headers["X-RateLimit-Remaining"] =
         GetRemainingRequests(ret.strategy, store, ret.pair, maxRequests, MwWindowMs, now)

\* the quota of a key in use in the storage: the counter or the length of the log
Used(alg, p) ==
  IF alg = "fixed" THEN Counter(p)
  ELSE Len(StoredLog(MemGet(store, getKey(p.clientId, p.endpoint))))

\* C25: a request that reaches the limiter makes one isRateLimited call and
\* then either next() is called (the call returned false) or a 429
\* RATE_LIMIT_EXCEEDED is sent without next() (it returned true); the quota in
\* use for a key never exceeds the number of its requests that were let through.
C25_OneCallOneOutcome ==
  /\ (ret.op = "request" /\ Classified(ret.req) = "") =>
       /\ ret.calls = 1
       /\ Len(hist) > 0
       /\ hist[Len(hist)].pair = ret.pair
       /\ IF hist[Len(hist)].limited
            THEN ret.status = 429 /\ ret.code = "RATE_LIMIT_EXCEEDED" /\ ~ret.next
            ELSE ret.status = 0 /\ ret.next
  /\ \A alg \in limiters, p \in pairs :
       Used(alg, p) <= Admitted(H(alg, p), Len(H(alg, p)))

\* a request was let through and a later one for the same key got the 429
C25_Witness ==
  /\ ret.op = "request"
  /\ ret.calls = 1
  /\ ret.status = 429
  /\ ~ret.next
  /\ \E i \in 1..Len(hist) : hist[i].pair = ret.pair /\ ~hist[i].limited
  /\ Used(ret.strategy, ret.pair) = maxRequests

\* ------------------------------------------------------------------ claims about the strategies, continued
\* the admitted fixed-window checks of p with a time in [a, a + WindowMs)
AdmittedWithin(p, a) ==
  {i \in 1..Len(hist) : /\ hist[i].alg = "fixed"
                        /\ hist[i].pair = p
                        /\ ~hist[i].limited
                        /\ a <= hist[i].t
                        /\ hist[i].t < a + WindowMs}

\* C26: in sequential execution the fixed window admits at most
\* 2 * maxRequests checks of one key in any interval shorter than windowMs,
\* whatever the window ids the interval touches, window 0 included.
C26_AtMostTwiceMaxInShortSpan ==
  \A p \in pairs, a \in 0..MaxTime : Cardinality(AdmittedWithin(p, a)) <= 2 * maxRequests

\* ------------------------------------------------------------------ a log left by earlier calls
\* the key of the pair under test
LogKey == getKey(TestPair.clientId, TestPair.endpoint)

\* isRateLimited takes maxRequests per call and any user of the storage may
\* set a key: at time WindowMs the key is absent, holds a number, or holds a
\* log of earlier calls that were made with a larger maxRequests
LogValues == {Num(1), Arr(<<0, 1>>), Arr(<<0, 1, WindowMs>>)}

LogInit ==
  /\ store \in {EmptyStore} \cup {MemSet(EmptyStore, LogKey, v) : v \in LogValues}
  /\ now = WindowMs
  /\ maxRequests \in 1..MaxReq
  /\ pairs = {TestPair}
  /\ limiters = {"sliding"}
  /\ hist = <<>>
  /\ ret = NoRet
  /\ pc = [self \in Procs |-> "idle"]
  /\ loc = [self \in Procs |-> IdleLoc]
  /\ backend = "memory"
  /\ conn = NoConn

LogSpec == LogInit /\ [][Next]_vars

\* the entries of a value read under a log key, as the claims count them:
\* none for an absent value or a number
Entries(v) == IF v = Null \/ DOMAIN v # {"arr"} THEN <<>> ELSE v.arr

\* the entries of log younger than WindowMs at time t, in order
InWindow(log, t) == SelectSeq(log, LAMBDA x : x > t - WindowMs)

\* C27: a sliding-window check at time now returns true exactly when the
\* stored timestamps strictly greater than now - windowMs number at least
\* maxRequests (one equal to now - windowMs is not counted, an absent value
\* or a number is an empty log), and an admitted check persists those
\* timestamps, in order, with now appended.
C27_SlidingDecisionAndLog ==
  [][(Len(hist') = Len(hist) + 1 /\ hist'[Len(hist')].alg = "sliding") =>
       LET e == hist'[Len(hist')]
           key == getKey(e.pair.clientId, e.pair.endpoint)
           log == Entries(MemGet(store, key))
           counted == Cardinality({i \in 1..Len(log) : log[i] > now - WindowMs})
       IN /\ e.limited <=> counted >= maxRequests
          /\ ~e.limited => MemGet(store', key) = Arr(Append(InWindow(log, now), now))]_vars

\* a check was admitted windowMs after an admitted one, with maxRequests = 1:
\* the timestamp equal to now - windowMs was not counted
C27_Witness ==
  /\ maxRequests = 1
  /\ Len(hist) >= 2
  /\ hist[Len(hist)].t = now
  /\ ~hist[Len(hist)].limited
  /\ hist[Len(hist) - 1].t = now - WindowMs
  /\ ~hist[Len(hist) - 1].limited
  /\ MemGet(store, LogKey) = Arr(<<now>>)

\* C28: a rejected fixed-window check does not increment the counter, and
\* when the stored window id already is floor(now / windowMs) it leaves the
\* counter key and the window key as they were.
C28_RejectedFixedCheckWritesNothing ==
  [][(Len(hist') = Len(hist) + 1 /\ hist'[Len(hist')].alg = "fixed"
        /\ hist'[Len(hist')].limited) =>
       LET e == hist'[Len(hist')]
           counterKey == getCounterKey(e.pair.clientId, e.pair.endpoint)
           windowKey == getWindowKey(e.pair.clientId, e.pair.endpoint)
       IN /\ AsNumber(MemGet(store', counterKey)) <= AsNumber(MemGet(store, counterKey))
          /\ MemGet(store, windowKey) = Num(now \div WindowMs) =>
               /\ MemGet(store', counterKey) = MemGet(store, counterKey)
               /\ MemGet(store', windowKey) = MemGet(store, windowKey)]_vars

\* two rejected checks in a row in a window that is not window 0, the
\* counter at maxRequests
C28_Witness ==
  /\ Len(hist) >= 2
  /\ hist[Len(hist)].alg = "fixed"
  /\ hist[Len(hist)].limited
  /\ hist[Len(hist) - 1].limited
  /\ hist[Len(hist)].t = now
  /\ maxRequests >= 1
  /\ Counter(TestPair) = maxRequests
  /\ MemGet(store, getWindowKey(TestPair.clientId, TestPair.endpoint)) = Num(now \div WindowMs)

\* C29: a rejected sliding-window check persists the in-window entries of
\* the log it read, in their order, without now: the stored log gains no
\* entry and the oldest entry still in the window stays the oldest.
C29_RejectedSlidingCheckTrimsOnly ==
  [][(Len(hist') = Len(hist) + 1 /\ hist'[Len(hist')].alg = "sliding"
        /\ hist'[Len(hist')].limited) =>
       LET e == hist'[Len(hist')]
           key == getKey(e.pair.clientId, e.pair.endpoint)
           log == Entries(MemGet(store, key))
       IN /\ MemGet(store', key) = Arr(InWindow(log, now))
          /\ Len(Entries(MemGet(store', key))) <= Len(log)
          /\ GetResetTime("sliding", store', e.pair, WindowMs, now)
               = GetResetTime("sliding", store, e.pair, WindowMs, now)
          /\ GetRemainingRequests("sliding", store', e.pair, maxRequests, WindowMs, now)
               = GetRemainingRequests("sliding", store, e.pair, maxRequests, WindowMs, now)]_vars

\* the first check found a log of three entries, one of them expired, and was
\* rejected: the two entries still in the window were persisted
C29_Witness ==
  /\ Len(hist) = 1
  /\ hist[1].alg = "sliding"
  /\ hist[1].limited
  /\ hist[1].t = WindowMs
  /\ MemGet(store, LogKey) = Arr(<<1, WindowMs>>)

\* C30: getRemainingRequests and getResetTime write nothing, and however
\* many of them are called between the checks, every check returns what it
\* returns when the checks are run alone: the results and the storage are
\* those of the checks replayed without the reads.
C30_ReadsAreReadOnly ==
  [][/\ ret'.op \in {"getRemainingRequests", "getResetTime"} => store' = store
     /\ LET alone == Replay(EmptyStore, hist', maxRequests)
        IN Decisions(hist') = alone.limited /\ store' = alone.store]_vars

\* a read was answered with part of the quota in use and checks still allowed
C30_Witness ==
  /\ ret.op \in {"getRemainingRequests", "getResetTime"}
  /\ ret.value > 0
  /\ Len(hist) >= 2
  /\ Len(hist) < MaxOps
  /\ hist[Len(hist)].limited
  /\ store # EmptyStore

\* ------------------------------------------------------------------ runs shifted in time
\* the number of whole windows a run is shifted by
MaxShift == 2

\* the calls of h, each made k windows later
Shifted(h, k) == [i \in 1..Len(h) |-> [h[i] EXCEPT !.t = @ + k * WindowMs]]

\* C31: a sequential fixed-window run on fresh state, with every request
\* time shifted by a whole multiple of windowMs, returns the same
\* isRateLimited results and ends with the same getRemainingRequests and
\* getResetTime; a run inside window 0 behaves like the same run inside
\* window k > 0.
C31_FixedShiftInvariant ==
  limiters = {"fixed"} =>
    \A k \in 1..MaxShift :
      LET later == Replay(EmptyStore, Shifted(hist, k), maxRequests)
      IN /\ later.limited = Decisions(hist)
         /\ \A p \in pairs :
              /\ GetRemainingRequests("fixed", later.store, p, maxRequests, WindowMs,
                                      now + k * WindowMs)
                   = GetRemainingRequests("fixed", store, p, maxRequests, WindowMs, now)
              /\ GetResetTime("fixed", later.store, p, WindowMs, now + k * WindowMs)
                   = GetResetTime("fixed", store, p, WindowMs, now)

\* ------------------------------------------------------------------ a clock that steps back
\* the number of checks of a run under a clock that may step back
ClockMaxOps == 3

ClockCheck(alg, p) == Len(hist) < ClockMaxOps /\ Check(alg, p)

\* Date.now() is the wall clock: it is set back by one millisecond
StepBack ==
  /\ now > 0
  /\ now' = now - 1
  /\ ret' = NoRet
  /\ UNCHANGED <<store, maxRequests, pairs, limiters, hist, pc, loc, backend, conn>>

ClockInit == InitWith({{"fixed"}, {"sliding"}}, {TestPair}, {0})

ClockNext ==
  \/ \E alg \in limiters, p \in pairs : ClockCheck(alg, p)
  \/ \E alg \in limiters, p \in pairs : Remaining(alg, p)
  \/ \E alg \in limiters, p \in pairs : ResetTime(alg, p)
  \/ Tick
  \/ StepBack

ClockSpec == ClockInit /\ [][ClockNext]_vars

\* C32: a sequential fixed-window check whose floor(now / windowMs) differs
\* from the stored window id, being later or earlier, resets the counter,
\* stores the new window id and is admitted (maxRequests >= 1): after it the
\* counter is 1.
C32_WindowChangeResets ==
  [][(Len(hist') = Len(hist) + 1 /\ hist'[Len(hist')].alg = "fixed") =>
       LET e == hist'[Len(hist')]
           counterKey == getCounterKey(e.pair.clientId, e.pair.endpoint)
           windowKey == getWindowKey(e.pair.clientId, e.pair.endpoint)
           storedWindow == MemGet(store, windowKey)
       IN (storedWindow # Null /\ storedWindow # Num(now \div WindowMs)) =>
            /\ ~e.limited
            /\ MemGet(store', windowKey) = Num(now \div WindowMs)
            /\ MemGet(store', counterKey) = Num(1)]_vars

\* a check was rejected in one window, the clock stepped back into the
\* window before it, and the next check was admitted there
C32_Witness ==
  /\ ret.op = "isRateLimited"
  /\ ret.alg = "fixed"
  /\ Len(hist) >= 2
  /\ hist[Len(hist) - 1].limited
  /\ ~hist[Len(hist)].limited
  /\ hist[Len(hist)].t = now
  /\ now \div WindowMs < hist[Len(hist) - 1].t \div WindowMs
  /\ Counter(TestPair) = 1

\* ------------------------------------------------------------------ claims about concurrent fixed-window checks
\* the completed fixed-window checks of p started in window w that were admitted
AdmittedIn(p, w) ==
  {i \in 1..Len(hist) : /\ hist[i].alg = "fixed"
                        /\ hist[i].pair = p
                        /\ ~hist[i].limited
                        /\ WindowOf(hist[i].t, WindowMs) = w}

\* C33: under any interleaving of NProc tasks issuing fixed-window checks on
\* one key, the checks admitted with one window id number at most
\* maxRequests + NProc - 1, however many checks each task issues.
C33_BoundedOvershoot ==
  \A p \in pairs, w \in 0..(MaxTime \div WindowMs) :
    Cardinality(AdmittedIn(p, w)) <= maxRequests + NProc - 1

\* C34: under any interleaving, the clock free to advance while a check is
\* in flight, a fixed-window check with window id w is rejected only if at
\* least maxRequests checks with window id w were admitted before it.
C34_NoSpuriousRejection ==
  \A k \in 1..Len(hist) :
    (hist[k].alg = "fixed" /\ hist[k].limited) =>
      Cardinality({i \in 1..(k - 1) :
                     /\ hist[i].pair = hist[k].pair
                     /\ ~hist[i].limited
                     /\ WindowOf(hist[i].t, WindowMs) = WindowOf(hist[k].t, WindowMs)})
        >= maxRequests

\* the tasks that read a count below maxRequests and have not incremented yet
AboutToIncrement == {self \in Procs : pc[self] = "fIncrement"}

\* C35: with NProc tasks, each running one fixed-window check at a time on
\* one key, the stored counter is at most maxRequests - 1 + NProc in every
\* state: a check in flight increments once, after reading a count below
\* maxRequests, so the counter and the increments still to come together
\* stay within that bound.
C35_CounterPlusPendingBounded ==
  limiters = {"fixed"} =>
    \A p \in pairs :
      /\ Counter(p) <= maxRequests - 1 + NProc
      /\ Counter(p) + Cardinality(AboutToIncrement) <= maxRequests - 1 + NProc

\* every task has read a count of maxRequests - 1 and is about to increment
C35_Witness ==
  /\ limiters = {"fixed"}
  /\ AboutToIncrement = Procs
  /\ Counter(TestPair) = maxRequests - 1
  /\ maxRequests > 1

\* ------------------------------------------------------------------ claims about the sliding window, continued
\* the admitted sliding-window checks of p with request time in (t - WindowMs, t]
SlidingAdmittedUpTo(p, t) ==
  {i \in 1..Len(hist) : /\ hist[i].alg = "sliding"
                        /\ hist[i].pair = p
                        /\ ~hist[i].limited
                        /\ hist[i].t > t - WindowMs
                        /\ hist[i].t <= t}

\* C36: in sequential execution with a non-decreasing clock, for every time
\* t at most maxRequests sliding-window checks of a key were admitted with
\* request time in (t - windowMs, t], whether or not the interval contains a
\* multiple of windowMs.
C36_SlidingNoBoundaryBurst ==
  \A p \in pairs, t \in 0..MaxTime : Cardinality(SlidingAdmittedUpTo(p, t)) <= maxRequests

\* maxRequests checks were admitted on both sides of a multiple of windowMs,
\* less than windowMs apart, and the check after them was rejected
C36_Witness ==
  /\ ret.op = "isRateLimited"
  /\ ret.alg = "sliding"
  /\ ret.limited
  /\ Cardinality(SlidingAdmittedUpTo(TestPair, now)) = maxRequests
  /\ \E i, j \in SlidingAdmittedUpTo(TestPair, now) :
       WindowOf(hist[i].t, WindowMs) < WindowOf(hist[j].t, WindowMs)

\* ------------------------------------------------------------------ a log in any order
\* the longest log the runs start from and the number of checks of a run
PermMaxLen == 3
PermMaxOps == 2

\* the sequences of at most n elements of S
SeqsUpTo(S, n) == UNION {[1..k -> S] : k \in 0..n}

\* concurrent callers set their logs in any order: at time WindowMs the key
\* holds timestamps up to WindowMs in any order
UnsortedInit ==
  /\ store \in {MemSet(EmptyStore, LogKey, Arr(log)) : log \in SeqsUpTo(0..WindowMs, PermMaxLen)}
  /\ now = WindowMs
  /\ maxRequests \in 1..MaxReq
  /\ pairs = {TestPair}
  /\ limiters = {"sliding"}
  /\ hist = <<>>
  /\ ret = NoRet
  /\ pc = [self \in Procs |-> "idle"]
  /\ loc = [self \in Procs |-> IdleLoc]
  /\ backend = "memory"
  /\ conn = NoConn

PermCheck(alg, p) == Len(hist) < PermMaxOps /\ Check(alg, p)

UnsortedNext ==
  \/ \E alg \in limiters, p \in pairs : PermCheck(alg, p)
  \/ \E alg \in limiters, p \in pairs : Remaining(alg, p)
  \/ \E alg \in limiters, p \in pairs : ResetTime(alg, p)
  \/ Tick

UnsortedSpec == UnsortedInit /\ [][UnsortedNext]_vars

\* the rearrangements of log
Perms(log) ==
  LET n == Len(log)
      Bijections == {f \in [1..n -> 1..n] : \A i, j \in 1..n : i # j => f[i] # f[j]}
  IN {[i \in 1..n |-> log[f[i]]] : f \in Bijections}

\* the smallest of a non-empty set of numbers
Least(S) == CHOOSE m \in S : \A x \in S : m <= x

\* C37: for any stored log and any rearrangement of it the sliding window
\* returns the same isRateLimited decision and the same
\* getRemainingRequests, and getResetTime is the smallest in-window
\* timestamp + windowMs - now (0 with no timestamp in the window), wherever
\* that timestamp stands in the log.
C37_LogOrderIrrelevant ==
  LET log == Entries(MemGet(store, LogKey))
      live == {log[i] : i \in {j \in 1..Len(log) : log[j] > now - WindowMs}}
  IN \A perm \in Perms(log) :
       LET s2 == MemSet(store, LogKey, Arr(perm))
       IN /\ IsRateLimited("sliding", s2, TestPair, maxRequests, WindowMs, now).limited
               = IsRateLimited("sliding", store, TestPair, maxRequests, WindowMs, now).limited
          /\ GetRemainingRequests("sliding", s2, TestPair, maxRequests, WindowMs, now)
               = GetRemainingRequests("sliding", store, TestPair, maxRequests, WindowMs, now)
          /\ GetResetTime("sliding", s2, TestPair, WindowMs, now)
               = IF live = {} THEN 0 ELSE Least(live) + WindowMs - now

\* getResetTime was answered from a log whose oldest in-window timestamp is
\* not its first in-window entry
C37_Witness ==
  /\ ret.op = "getResetTime"
  /\ LET log == Entries(MemGet(store, LogKey))
     IN \E i, j \in 1..Len(log) :
          /\ i < j
          /\ log[j] < log[i]
          /\ log[j] > now - WindowMs
          /\ ret.value = log[j] + WindowMs - now

\* ------------------------------------------------------------------ the limiters on a connected RedisStorage
\* RedisStorage.get, .set and .increment with the connection up: the data of
\* the server after the call, or the value the call resolves to
RGet(s, key) == RedisCommand(s, "get", key, Void).result

RSet(s, key, value) == RedisCommand(s, "set", key, value).store

RIncrement(s, key) == RedisCommand(s, "increment", key, Void).store

\* FixedWindowRateLimiter.isRateLimited with this.storage a RedisStorage
RedisFixedIsRateLimited(s, clientId, endpoint, maxReq, windowMs, t) ==
  LET counterKey == getCounterKey(clientId, endpoint)
      windowKey == getWindowKey(clientId, endpoint)
      currentWindow == WindowOf(t, windowMs)
      storedWindow == RGet(s, windowKey)
      s1 == IF NewWindow(storedWindow, currentWindow)
              THEN RSet(RSet(s, counterKey, Num(0)), windowKey, Num(currentWindow))
              ELSE s
      currentCount == RGet(s1, counterKey)
  IN IF OverLimit(currentCount, maxReq)
       THEN [store |-> s1, limited |-> TRUE]
       ELSE [store |-> RIncrement(s1, counterKey), limited |-> FALSE]

RedisFixedGetRemainingRequests(s, clientId, endpoint, maxReq, windowMs, t) ==
  LET counterKey == getCounterKey(clientId, endpoint)
      windowKey == getWindowKey(clientId, endpoint)
      currentWindow == WindowOf(t, windowMs)
      storedWindow == RGet(s, windowKey)
  IN IF NewWindow(storedWindow, currentWindow)
       THEN maxReq
       ELSE MathMax0(maxReq - AsNumber(RGet(s, counterKey)))

RedisFixedGetResetTime(s, clientId, endpoint, windowMs, t) ==
  LET windowKey == getWindowKey(clientId, endpoint)
      currentWindow == WindowOf(t, windowMs)
      storedWindow == RGet(s, windowKey)
  IN IF NewWindow(storedWindow, currentWindow)
       THEN 0
       ELSE (currentWindow + 1) * windowMs - t

\* SlidingWindowRateLimiter.isRateLimited with this.storage a RedisStorage
RedisSlidingIsRateLimited(s, clientId, endpoint, maxReq, windowMs, t) ==
  LET key == getKey(clientId, endpoint)
      windowStart == t - windowMs
      timestamps == Filter(StoredLog(RGet(s, key)), windowStart)
  IN IF LogFull(timestamps, maxReq)
       THEN [store |-> RSet(s, key, Arr(timestamps)), limited |-> TRUE]
       ELSE [store |-> RSet(s, key, Arr(Append(timestamps, t))), limited |-> FALSE]

RedisSlidingGetRemainingRequests(s, clientId, endpoint, maxReq, windowMs, t) ==
  LET key == getKey(clientId, endpoint)
      windowStart == t - windowMs
      timestamps == Filter(StoredLog(RGet(s, key)), windowStart)
  IN MathMax0(maxReq - Len(timestamps))

RedisSlidingGetResetTime(s, clientId, endpoint, windowMs, t) ==
  LET key == getKey(clientId, endpoint)
      windowStart == t - windowMs
      validTimestamps == Filter(StoredLog(RGet(s, key)), windowStart)
  IN IF validTimestamps # <<>>
       THEN MathMin(validTimestamps) + windowMs - t
       ELSE 0

RedisIsRateLimited(alg, s, p, maxReq, windowMs, t) ==
  IF alg = "fixed"
    THEN RedisFixedIsRateLimited(s, p.clientId, p.endpoint, maxReq, windowMs, t)
    ELSE RedisSlidingIsRateLimited(s, p.clientId, p.endpoint, maxReq, windowMs, t)

RedisGetRemainingRequests(alg, s, p, maxReq, windowMs, t) ==
  IF alg = "fixed"
    THEN RedisFixedGetRemainingRequests(s, p.clientId, p.endpoint, maxReq, windowMs, t)
    ELSE RedisSlidingGetRemainingRequests(s, p.clientId, p.endpoint, maxReq, windowMs, t)

RedisGetResetTime(alg, s, p, windowMs, t) ==
  IF alg = "fixed"
    THEN RedisFixedGetResetTime(s, p.clientId, p.endpoint, windowMs, t)
    ELSE RedisSlidingGetResetTime(s, p.clientId, p.endpoint, windowMs, t)

RECURSIVE RedisReplay(_, _, _)
\* the calls of h run in order on a RedisStorage whose server holds s: the
\* data they leave and the results they return
RedisReplay(s, h, maxReq) ==
  IF h = <<>> THEN [store |-> s, limited |-> <<>>]
  ELSE LET e == Head(h)
           r == RedisIsRateLimited(e.alg, s, e.pair, maxReq, WindowMs, e.t)
           rest == RedisReplay(r.store, Tail(h), maxReq)
       IN [store |-> rest.store, limited |-> <<r.limited>> \o rest.limited]

\* C38: every sequential run of checks and clock steps returns on a
\* connected RedisStorage the isRateLimited results it returns on
\* MemoryStorage, and getRemainingRequests and getResetTime agree after it;
\* each key reads back from Redis as the value MemoryStorage holds.
C38_BackendsAgree ==
  LET redis == RedisReplay(EmptyStore, hist, maxRequests)
  IN /\ redis.limited = Decisions(hist)
     /\ DOMAIN redis.store = DOMAIN store
     /\ \A key \in DOMAIN store : RGet(redis.store, key) = MemGet(store, key)
     /\ \A alg \in limiters, p \in pairs :
          /\ RedisGetRemainingRequests(alg, redis.store, p, maxRequests, WindowMs, now)
               = GetRemainingRequests(alg, store, p, maxRequests, WindowMs, now)
          /\ RedisGetResetTime(alg, redis.store, p, WindowMs, now)
               = GetResetTime(alg, store, p, WindowMs, now)

\* a sliding-window run with a rejected check whose log of two timestamps is
\* held by Redis as the text of a JSON array, and a fixed-window run whose
\* counter Redis holds as the text of maxRequests
C38_Witness ==
  LET redis == RedisReplay(EmptyStore, hist, maxRequests)
  IN /\ \E i \in 1..Len(hist) : hist[i].limited
     /\ \/ /\ limiters = {"sliding"}
           /\ redis.store[LogKey] = Str("[2,3]")
        \/ /\ limiters = {"fixed"}
           /\ now >= WindowMs
           /\ redis.store[getCounterKey(TestPair.clientId, TestPair.endpoint)]
                = Str(NumberToString(maxRequests))

\* ------------------------------------------------------------------ connection attempts
\* the operations suspended at await this.client.connect()
Connecting == {self \in Procs : pc[self] = "rConnect"}

\* C39: RedisStorage has at most one client.connect() in flight: an operation
\* issued while an attempt is pending does not start a second one.
C39_OneConnectInFlight == Cardinality(Connecting) <= 1

====
